---- MODULE Spec2Model ----
\* FileProtocolHandler (vs/code/electron-main/protocol.ts): the gate that decides,
\* for every file: and vscode-file: request of the renderer, whether the resource
\* may be loaded, and the grants of extension development/tests roots that live
\* as long as the window that asked for them.
EXTENDS Integers, Sequences, FiniteSets, TLC

VARIABLES
    validRoots,                 \* the keys held by the TernarySearchTree (value always true)
    validExtensions,            \* the Set of allowed extensions
    isLinux,                    \* platform flag: paths are case sensitive
    isPreferringBrowserCodeLoad,\* static flag: block every file: request
    windows,                    \* per window: ready signals seen, close / destroy fired,
                                \* and the paths its configurations reported
    disposables,                \* the DisposableStores created by ready signals
    requests,                   \* the request Electron handed over last (none at first),
                                \* with what its handler did
    handles                     \* handles of addValidRoot held by a direct caller

vars == <<validRoots, validExtensions, isLinux, isPreferringBrowserCodeLoad,
          windows, disposables, requests, handles>>

\* ---------------------------------------------------------------- bounds
MaxReady == 1
MaxHandles == 2
MaxDisposeCalls == 3

Windows == {"C", "D"}

\* ---------------------------------------------------------------- paths
\* A path is a sequence of one-character strings.
toLowerCase(c) ==
    CASE c = "A" -> "a"
      [] c = "B" -> "b"
      [] c = "P" -> "p"
      [] c = "N" -> "n"
      [] c = "G" -> "g"
      [] OTHER -> c

lower(s) == [i \in 1..Len(s) |-> toLowerCase(s[i])]

IsPrefix(s, t) == Len(s) <= Len(t) /\ SubSeq(t, 1, Len(s)) = s

\* PathIterator: the segments between "/" separators, empty segments skipped.
RECURSIVE SplitPath(_, _)
SplitPath(s, cur) ==
    IF s = <<>>
    THEN IF cur = <<>> THEN <<>> ELSE <<cur>>
    ELSE IF Head(s) = "/"
         THEN IF cur = <<>>
              THEN SplitPath(Tail(s), <<>>)
              ELSE <<cur>> \o SplitPath(Tail(s), <<>>)
         ELSE SplitPath(Tail(s), Append(cur, Head(s)))

Segments(path) == SplitPath(path, <<>>)

\* Paths of the environment and of the window configurations.
appRoot == <<"/", "p">>
extensionsPath == <<"/", "e">>
globalStorageHomePath == <<"/", "g">>
workspaceStorageHomePath == <<"/", "w">>

PathAB == <<"/", "a", "/", "b">>
PathA == <<"/", "a">>
PathABUpper == <<"/", "A", "/", "b">>

\* ---------------------------------------------------------------- URIs
EmptyUri == [scheme |-> "", authority |-> "", path |-> <<>>]

URI_file(path) == [scheme |-> "file", authority |-> "", path |-> path]

SchemeTokens == {"file:", "vscode-file:"}
SchemeOf(tok) == IF tok = "file:" THEN "file" ELSE "vscode-file"
BadEscape == "%"

\* URI.parse: scheme ":" "//" [authority] path. A URL of another shape, or one
\* holding an undecodable escape, yields the empty URI.
URI_parse(url) ==
    IF Len(url) < 2 \/ \E i \in 1..Len(url) : url[i] = BadEscape
    THEN EmptyUri
    ELSE IF url[1] \notin SchemeTokens \/ url[2] # "//"
    THEN EmptyUri
    ELSE LET rest == SubSeq(url, 3, Len(url))
             hasAuthority == rest # <<>> /\ rest[1] # "/"
             authority == IF hasAuthority THEN rest[1] ELSE ""
             path == IF hasAuthority THEN Tail(rest) ELSE rest
         IN [scheme |-> SchemeOf(url[1]), authority |-> authority, path |-> path]

\* uri.fsPath: the platform path of a URI; an authority makes it a UNC path.
fsPath(uri) ==
    IF uri.authority # "" /\ uri.scheme = "file"
    THEN <<"/", "/", uri.authority>> \o uri.path
    ELSE uri.path

\* FileAccess.asFileUri: a vscode-file URI becomes the file URI of the same path,
\* the vscode-app authority dropped; any other URI is returned as it is.
asFileUri(uri) ==
    IF uri.scheme = "vscode-file"
    THEN [scheme |-> "file",
          authority |-> IF uri.authority = "vscode-app" THEN "" ELSE uri.authority,
          path |-> uri.path]
    ELSE uri

\* extname: the dot-inclusive extension of the last path segment, lowercased;
\* empty when the segment has no dot or only a leading one.
RECURSIVE LastDot(_, _)
LastDot(seg, i) ==
    IF i = 0 THEN 0
    ELSE IF seg[i] = "." THEN i
    ELSE LastDot(seg, i - 1)

extnameOf(chars) ==
    LET segs == Segments(chars)
    IN IF segs = <<>> THEN <<>>
       ELSE LET base == segs[Len(segs)]
                d == LastDot(base, Len(base))
            IN IF d <= 1 THEN <<>>
               ELSE lower(SubSeq(base, d, Len(base)))

\* extname without the lowercasing.
extname_preserveCase(uri) ==
    LET segs == Segments(uri.path)
    IN IF segs = <<>> THEN <<>>
       ELSE LET base == segs[Len(segs)]
                d == LastDot(base, Len(base))
            IN IF d <= 1 THEN <<>>
               ELSE SubSeq(base, d, Len(base))

extname(uri) == extnameOf(uri.path)

\* ---------------------------------------------------------------- the root store
\* A store that compares paths case-sensitively on every platform.
ignorePathCasing_never(linux) == FALSE

\* TernarySearchTree.forUris(() => !isLinux): a key is the scheme, the authority
\* and the path segments of a URI, the segments compared ignoring case unless
\* the platform is Linux.
ignorePathCasing(linux) == ~linux

Key(uri, linux) ==
    [scheme |-> uri.scheme,
     authority |-> uri.authority,
     segs |-> IF ignorePathCasing(linux)
              THEN Segments(lower(uri.path))
              ELSE Segments(uri.path)]

tst_set(roots, linux, uri) == roots \cup {Key(uri, linux)}

tst_get(roots, linux, uri) == Key(uri, linux) \in roots

tst_delete(roots, linux, uri) == roots \ {Key(uri, linux)}

\* findSubstr: some stored key is the key itself or a prefix of it by whole segments.
tst_findSubstr(roots, linux, uri) ==
    LET k == Key(uri, linux)
    IN \E r \in roots :
          /\ r.scheme = k.scheme
          /\ r.authority = k.authority
          /\ IsPrefix(r.segs, k.segs)

\* ---------------------------------------------------------------- disposables
\* toDisposable(fn): a handle that runs fn on its first dispose() only.
toDisposable(fn, root) == [fn |-> fn, root |-> root, done |-> FALSE]

\* Disposable.None: a frozen handle whose dispose() does nothing.
Disposable_None == [fn |-> "none", root |-> EmptyUri, done |-> FALSE]

\* handle.dispose(): the store after the call, and the handle after the call.
dispose_roots_everyCall(h, roots, linux) ==
    IF h.fn = "delete" THEN tst_delete(roots, linux, h.root) ELSE roots

dispose_roots(h, roots, linux) ==
    IF h.fn = "delete" /\ ~h.done
    THEN tst_delete(roots, linux, h.root)
    ELSE roots

dispose_handle(h) == IF h.fn = "none" THEN h ELSE [h EXCEPT !.done = TRUE]

\* DisposableStore.dispose(): nothing when already disposed; otherwise every
\* handle added so far is disposed in order and the store is emptied.
RECURSIVE disposeAll(_, _, _)
disposeAll(hs, roots, linux) ==
    IF hs = <<>> THEN roots
    ELSE disposeAll(Tail(hs), dispose_roots(Head(hs), roots, linux), linux)

NewDisposableStore == [isDisposed |-> FALSE, toDispose |-> <<>>]

DisposableStore_add(ds, h) == [ds EXCEPT !.toDispose = Append(@, h)]

DisposableStore_dispose_roots(ds, roots, linux) ==
    IF ds.isDisposed THEN roots ELSE disposeAll(ds.toDispose, roots, linux)

DisposableStore_dispose(ds) == [isDisposed |-> TRUE, toDispose |-> <<>>]

\* ---------------------------------------------------------------- addValidRoot
\* addValidRoot that inserts and hands out a deleting handle whether or not
\* the root is stored already.
addValidRoot_alwaysHandle(roots, linux, root) ==
    [roots |-> tst_set(roots, linux, root), handle |-> toDisposable("delete", root)]

\* addValidRoot that takes a root for authorized when some stored root covers it.
addValidRoot_coveringCheck(roots, linux, root) ==
    IF ~tst_findSubstr(roots, linux, root)
    THEN [roots |-> tst_set(roots, linux, root), handle |-> toDisposable("delete", root)]
    ELSE [roots |-> roots, handle |-> Disposable_None]

addValidRoot(roots, linux, root) ==
    IF ~tst_get(roots, linux, root)
    THEN [roots |-> tst_set(roots, linux, root), handle |-> toDisposable("delete", root)]
    ELSE [roots |-> roots, handle |-> Disposable_None]

\* ---------------------------------------------------------------- window configurations
\* window.config: absent, or a record whose extensionDevelopmentPath (a list)
\* and extensionTestsPath (a path) may each be absent.
NoConfig == [hasConfig |-> FALSE, hasDev |-> FALSE, dev |-> <<>>, hasTests |-> FALSE, tests |-> <<>>]

DevConfig(paths) == [hasConfig |-> TRUE, hasDev |-> TRUE, dev |-> paths, hasTests |-> FALSE, tests |-> <<>>]

TestsConfig(path) == [hasConfig |-> TRUE, hasDev |-> FALSE, dev |-> <<>>, hasTests |-> TRUE, tests |-> path]

BothConfig(paths, path) == [hasConfig |-> TRUE, hasDev |-> TRUE, dev |-> paths, hasTests |-> TRUE, tests |-> path]

Configs ==
    { NoConfig,
      DevConfig(<<PathAB>>),
      TestsConfig(PathAB),
      BothConfig(<<PathA, PathABUpper>>, appRoot) }

\* The paths a configuration asks access for.
ConfigPaths(config) ==
    (IF config.hasConfig /\ config.hasDev
     THEN {config.dev[i] : i \in 1..Len(config.dev)} ELSE {})
    \cup (IF config.hasConfig /\ config.hasTests THEN {config.tests} ELSE {})

\* The listener body of onDidSignalReadyWindow, after the DisposableStore and
\* the close/destroy subscription are set up: one addValidRoot per development
\* path, then one for the tests path.
RECURSIVE addDevelopmentPaths(_, _, _, _)
addDevelopmentPaths(paths, roots, linux, ds) ==
    IF paths = <<>> THEN [roots |-> roots, ds |-> ds]
    ELSE LET r == addValidRoot(roots, linux, URI_file(Head(paths)))
         IN addDevelopmentPaths(Tail(paths), r.roots, linux, DisposableStore_add(ds, r.handle))

\* The ready listener granting the folder that holds the tests path instead of
\* the tests path itself.
signalReady_grantsTestsFolder(config, roots, linux) ==
    LET ds0 == DisposableStore_add(NewDisposableStore, toDisposable("unlisten", EmptyUri))
        afterDev == IF config.hasDev
                    THEN addDevelopmentPaths(config.dev, roots, linux, ds0)
                    ELSE [roots |-> roots, ds |-> ds0]
        folder == IF Len(config.tests) > 2
                  THEN SubSeq(config.tests, 1, Len(config.tests) - 2) ELSE config.tests
    IN IF config.hasTests
       THEN LET r == addValidRoot(afterDev.roots, linux, URI_file(folder))
            IN [roots |-> r.roots, ds |-> DisposableStore_add(afterDev.ds, r.handle)]
       ELSE afterDev

signalReady(config, roots, linux) ==
    LET ds0 == DisposableStore_add(NewDisposableStore, toDisposable("unlisten", EmptyUri))
        afterDev == IF config.hasDev
                    THEN addDevelopmentPaths(config.dev, roots, linux, ds0)
                    ELSE [roots |-> roots, ds |-> ds0]
    IN IF config.hasTests
       THEN LET r == addValidRoot(afterDev.roots, linux, URI_file(config.tests))
            IN [roots |-> r.roots, ds |-> DisposableStore_add(afterDev.ds, r.handle)]
       ELSE afterDev

\* ---------------------------------------------------------------- the request handlers
ABORTED == -3

\* The allow-list with the script extension let in.
AllowedExtensions_withScripts ==
    { <<".", "p", "n", "g">>, <<".", "j", "p", "g">>, <<".", "j", "p", "e", "g">>,
      <<".", "g", "i", "f">>, <<".", "b", "m", "p">>, <<".", "j", "s">> }

AllowedExtensions ==
    { <<".", "p", "n", "g">>, <<".", "j", "p", "g">>, <<".", "j", "p", "e", "g">>,
      <<".", "g", "i", "f">>, <<".", "b", "m", "p">> }

\* What a handler does, in order: log entries and invocations of the callback.
CallbackPath(path) ==
    [kind |-> "callback", result |-> "path", path |-> path, error |-> 0,
     prefix |-> "", protocol |-> "", url |-> <<>>]

CallbackError(code) ==
    [kind |-> "callback", result |-> "error", path |-> <<>>, error |-> code,
     prefix |-> "", protocol |-> "", url |-> <<>>]

LogError(prefix, path, protocol, url) ==
    [kind |-> "log", result |-> "", path |-> path, error |-> 0,
     prefix |-> prefix, protocol |-> protocol, url |-> url]

\* handleFileRequest without the isPreferringBrowserCodeLoad branch.
handleFileRequest_noModeCheck(url, roots, extensions, linux, preferBrowser) ==
    LET fileUri == URI_parse(url)
    IN IF tst_findSubstr(roots, linux, fileUri)
       THEN <<CallbackPath(fsPath(fileUri))>>
       ELSE IF extname(fileUri) \in extensions
       THEN <<CallbackPath(fsPath(fileUri))>>
       ELSE <<LogError("file", fsPath(fileUri), "file", url), CallbackError(ABORTED)>>

\* handleFileRequest with the return of the root check missing: the handler
\* goes on to the extension check after it has served.
handleFileRequest_fallThrough(url, roots, extensions, linux, preferBrowser) ==
    LET fileUri == URI_parse(url)
        rest == IF extname(fileUri) \in extensions
                THEN <<CallbackPath(fsPath(fileUri))>>
                ELSE <<LogError("file", fsPath(fileUri), "file", url), CallbackError(ABORTED)>>
    IN IF ~preferBrowser
       THEN IF tst_findSubstr(roots, linux, fileUri)
            THEN <<CallbackPath(fsPath(fileUri))>> \o rest
            ELSE rest
       ELSE <<LogError("", fsPath(fileUri), "file", url), CallbackError(ABORTED)>>

\* handleFileRequest taking the extension from the raw request URL.
handleFileRequest_rawExtension(url, roots, extensions, linux, preferBrowser) ==
    LET fileUri == URI_parse(url)
    IN IF ~preferBrowser
       THEN IF tst_findSubstr(roots, linux, fileUri)
            THEN <<CallbackPath(fsPath(fileUri))>>
            ELSE IF extnameOf(url) \in extensions
            THEN <<CallbackPath(fsPath(fileUri))>>
            ELSE <<LogError("file", fsPath(fileUri), "file", url), CallbackError(ABORTED)>>
       ELSE <<LogError("", fsPath(fileUri), "file", url), CallbackError(ABORTED)>>

\* handleFileRequest looking the root up by exact key (get) instead of findSubstr.
handleFileRequest_exactRoot(url, roots, extensions, linux, preferBrowser) ==
    LET fileUri == URI_parse(url)
    IN IF ~preferBrowser
       THEN IF tst_get(roots, linux, fileUri)
            THEN <<CallbackPath(fsPath(fileUri))>>
            ELSE IF extname(fileUri) \in extensions
            THEN <<CallbackPath(fsPath(fileUri))>>
            ELSE <<LogError("file", fsPath(fileUri), "file", url), CallbackError(ABORTED)>>
       ELSE <<LogError("", fsPath(fileUri), "file", url), CallbackError(ABORTED)>>

\* handleFileRequest whose isPreferringBrowserCodeLoad branch blocks the
\* request without logging it.
handleFileRequest_silentBlock(url, roots, extensions, linux, preferBrowser) ==
    LET fileUri == URI_parse(url)
    IN IF ~preferBrowser
       THEN IF tst_findSubstr(roots, linux, fileUri)
            THEN <<CallbackPath(fsPath(fileUri))>>
            ELSE IF extname(fileUri) \in extensions
            THEN <<CallbackPath(fsPath(fileUri))>>
            ELSE <<LogError("file", fsPath(fileUri), "file", url), CallbackError(ABORTED)>>
       ELSE <<CallbackError(ABORTED)>>

handleFileRequest(url, roots, extensions, linux, preferBrowser) ==
    LET fileUri == URI_parse(url)
    IN IF ~preferBrowser
       THEN IF tst_findSubstr(roots, linux, fileUri)
            THEN <<CallbackPath(fsPath(fileUri))>>
            ELSE IF extname(fileUri) \in extensions
            THEN <<CallbackPath(fsPath(fileUri))>>
            ELSE <<LogError("file", fsPath(fileUri), "file", url), CallbackError(ABORTED)>>
       ELSE <<LogError("", fsPath(fileUri), "file", url), CallbackError(ABORTED)>>

\* handleResourceRequest with the final block missing: what matches nothing is served.
handleResourceRequest_noBlock(url, roots, extensions, linux) ==
    LET fileUri == asFileUri(URI_parse(url))
    IN <<CallbackPath(fsPath(fileUri))>>

\* handleResourceRequest that checks and serves the vscode-file URI as parsed,
\* without translating it to a file URI.
handleResourceRequest_untranslated(url, roots, extensions, linux) ==
    LET uri == URI_parse(url)
    IN IF tst_findSubstr(roots, linux, uri)
       THEN <<CallbackPath(fsPath(uri))>>
       ELSE IF extname(uri) \in extensions
       THEN <<CallbackPath(fsPath(uri))>>
       ELSE <<LogError("vscode-file", fsPath(uri), "vscode-file", url), CallbackError(ABORTED)>>

\* handleResourceRequest that blocks every request while
\* isPreferringBrowserCodeLoad is set, as handleFileRequest does.
handleResourceRequest_withModeCheck(url, roots, extensions, linux) ==
    LET fileUri == asFileUri(URI_parse(url))
    IN IF isPreferringBrowserCodeLoad
       THEN <<LogError("vscode-file", fsPath(fileUri), "vscode-file", url), CallbackError(ABORTED)>>
       ELSE IF tst_findSubstr(roots, linux, fileUri)
       THEN <<CallbackPath(fsPath(fileUri))>>
       ELSE IF extname(fileUri) \in extensions
       THEN <<CallbackPath(fsPath(fileUri))>>
       ELSE <<LogError("vscode-file", fsPath(fileUri), "vscode-file", url), CallbackError(ABORTED)>>

handleResourceRequest(url, roots, extensions, linux) ==
    LET uri == URI_parse(url)
        fileUri == asFileUri(uri)
    IN IF tst_findSubstr(roots, linux, fileUri)
       THEN <<CallbackPath(fsPath(fileUri))>>
       ELSE IF extname(fileUri) \in extensions
       THEN <<CallbackPath(fsPath(fileUri))>>
       ELSE <<LogError("vscode-file", fsPath(fileUri), "vscode-file", url), CallbackError(ABORTED)>>

\* ---------------------------------------------------------------- requests
FileUrl(path) == <<"file:", "//">> \o path
ResourceUrl(path) == <<"vscode-file:", "//", "vscode-app">> \o path

ScriptInAB == <<"/", "a", "/", "b", "/", "x", ".", "j", "s">>
SiblingOfAB == <<"/", "a", "/", "b", "c">>
ImageLower == <<"/", "u", "/", "i", ".", "p", "n", "g">>
ImageUpper == <<"/", "u", "/", "i", ".", "P", "N", "G">>
Undecodable == <<"/", "u", "/", BadEscape, ".", "p", "n", "g">>

FileUrls ==
    { FileUrl(ScriptInAB), FileUrl(SiblingOfAB), FileUrl(ImageLower),
      FileUrl(ImageUpper), FileUrl(Undecodable) }

ResourceUrls ==
    { ResourceUrl(ScriptInAB), ResourceUrl(ImageLower), ResourceUrl(ImageUpper),
      ResourceUrl(Undecodable) }

Callbacks(events) == SelectSeq(events, LAMBDA e : e.kind = "callback")
Logs(events) == SelectSeq(events, LAMBDA e : e.kind = "log")

\* The state of a request once its handler has run, by the first invocation of
\* its callback; a handler that never invoked it leaves the request resolving.
StateAfter(events) ==
    LET cbs == Callbacks(events)
    IN IF cbs = <<>> THEN "Resolving"
       ELSE IF cbs[1].result = "path" THEN "Served" ELSE "Denied"

\* ---------------------------------------------------------------- the state machine
InitialRoots(linux) ==
    LET r1 == tst_set({}, linux, URI_file(appRoot))
        r2 == tst_set(r1, linux, URI_file(extensionsPath))
        r3 == tst_set(r2, linux, URI_file(globalStorageHomePath))
    IN tst_set(r3, linux, URI_file(workspaceStorageHomePath))

Init ==
    /\ isLinux \in BOOLEAN
    /\ isPreferringBrowserCodeLoad \in BOOLEAN
    /\ validRoots = InitialRoots(isLinux)
    /\ validExtensions = AllowedExtensions
    /\ windows = [w \in Windows |->
                    [ready |-> 0, closed |-> FALSE, destroyed |-> FALSE, reported |-> {}]]
    /\ disposables = [w \in Windows |-> <<>>]
    /\ requests = <<>>
    /\ handles = <<>>

\* A window signals that it is ready: the listener of injectWindowsMainService runs.
OnDidSignalReadyWindow(w, config) ==
    /\ windows[w].ready < MaxReady
    /\ ~windows[w].closed /\ ~windows[w].destroyed
    /\ windows' = [windows EXCEPT ![w].ready = @ + 1,
                                  ![w].reported = @ \cup ConfigPaths(config)]
    /\ IF config.hasConfig /\ (config.hasDev \/ config.hasTests)
       THEN LET r == signalReady(config, validRoots, isLinux)
            IN /\ validRoots' = r.roots
               /\ disposables' = [disposables EXCEPT ![w] = Append(@, r.ds)]
       ELSE UNCHANGED <<validRoots, disposables>>
    /\ UNCHANGED <<validExtensions, isLinux, isPreferringBrowserCodeLoad, requests, handles>>

\* Event.any(window.onDidClose, window.onDidDestroy): either event runs
\* disposables.dispose() of every DisposableStore of the window.
RECURSIVE disposeStores(_, _, _)
disposeStores(stores, roots, linux) ==
    IF stores = <<>> THEN roots
    ELSE disposeStores(Tail(stores), DisposableStore_dispose_roots(Head(stores), roots, linux), linux)

\* A close/destroy listener that runs the handles of the window's stores and
\* leaves the stores as they were, so that the next event runs them again.
fireTerminal_keepsStores(w) ==
    /\ validRoots' = disposeStores(disposables[w], validRoots, isLinux)
    /\ disposables' = disposables

fireTerminal(w) ==
    /\ validRoots' = disposeStores(disposables[w], validRoots, isLinux)
    /\ disposables' = [disposables EXCEPT
                         ![w] = [i \in 1..Len(@) |-> DisposableStore_dispose(@[i])]]

\* A close or destroy of a window that never signalled ready reaches no
\* listener of this class and is left out.
OnDidClose(w) ==
    /\ windows[w].ready > 0
    /\ ~windows[w].closed
    /\ windows' = [windows EXCEPT ![w].closed = TRUE]
    /\ fireTerminal(w)
    /\ UNCHANGED <<validExtensions, isLinux, isPreferringBrowserCodeLoad, requests, handles>>

OnDidDestroy(w) ==
    /\ windows[w].ready > 0
    /\ ~windows[w].destroyed
    /\ windows' = [windows EXCEPT ![w].destroyed = TRUE]
    /\ fireTerminal(w)
    /\ UNCHANGED <<validExtensions, isLinux, isPreferringBrowserCodeLoad, requests, handles>>

\* Electron hands a request to the handler registered for its scheme. Requests
\* are handled one at a time; the model keeps the latest one, so a behaviour
\* holds any number of requests.
ReceiveRequest(url) ==
    /\ \A i \in 1..Len(requests) : requests[i].state # "Received"
    /\ requests' = <<[url |-> url, state |-> "Received", events |-> <<>>]>>
    /\ UNCHANGED <<validRoots, validExtensions, isLinux, isPreferringBrowserCodeLoad,
                   windows, disposables, handles>>

HandleFileRequest(i) ==
    /\ requests[i].state = "Received"
    /\ requests[i].url[1] = "file:"
    /\ LET events == handleFileRequest(requests[i].url, validRoots, validExtensions,
                                       isLinux, isPreferringBrowserCodeLoad)
       IN requests' = [requests EXCEPT ![i].events = events, ![i].state = StateAfter(events)]
    /\ UNCHANGED <<validRoots, validExtensions, isLinux, isPreferringBrowserCodeLoad,
                   windows, disposables, handles>>

HandleResourceRequest(i) ==
    /\ requests[i].state = "Received"
    /\ requests[i].url[1] = "vscode-file:"
    /\ LET events == handleResourceRequest(requests[i].url, validRoots, validExtensions, isLinux)
       IN requests' = [requests EXCEPT ![i].events = events, ![i].state = StateAfter(events)]
    /\ UNCHANGED <<validRoots, validExtensions, isLinux, isPreferringBrowserCodeLoad,
                   windows, disposables, handles>>

Next ==
    \/ \E w \in Windows, config \in Configs : OnDidSignalReadyWindow(w, config)
    \/ \E w \in Windows : OnDidClose(w)
    \/ \E w \in Windows : OnDidDestroy(w)
    \/ \E url \in FileUrls \cup ResourceUrls : ReceiveRequest(url)
    \/ \E i \in 1..Len(requests) : HandleFileRequest(i)
    \/ \E i \in 1..Len(requests) : HandleResourceRequest(i)

Spec == Init /\ [][Next]_vars

\* ---------------------------------------------------------------- handles called directly
\* addValidRoot and the handles it returns, driven by a caller that keeps every
\* handle and may call dispose() on any of them any number of times.
Grant(path) ==
    /\ Len(handles) < MaxHandles
    /\ LET r == addValidRoot(validRoots, isLinux, URI_file(path))
       IN /\ validRoots' = r.roots
          /\ handles' = Append(handles, [h |-> r.handle, calls |-> 0, heldAtLastCall |-> 0])
    /\ UNCHANGED <<validExtensions, isLinux, isPreferringBrowserCodeLoad,
                   windows, disposables, requests>>

Revoke(i) ==
    /\ handles[i].calls < MaxDisposeCalls
    /\ validRoots' = dispose_roots(handles[i].h, validRoots, isLinux)
    /\ handles' = [handles EXCEPT ![i] = [h |-> dispose_handle(@.h),
                                          calls |-> @.calls + 1,
                                          heldAtLastCall |-> Len(handles)]]
    /\ UNCHANGED <<validExtensions, isLinux, isPreferringBrowserCodeLoad,
                   windows, disposables, requests>>

GrantPaths == {PathAB, PathA, PathABUpper, appRoot}

NextRevoke ==
    \/ \E path \in GrantPaths : Grant(path)
    \/ \E i \in 1..Len(handles) : Revoke(i)

SpecRevoke == Init /\ [][NextRevoke]_vars

\* ================================================================ properties
\* Vocabulary of the properties, stated on characters and not through the
\* operators of the handlers.
RECURSIVE JoinSegments(_)
JoinSegments(segs) ==
    IF segs = <<>> THEN <<>>
    ELSE <<"/">> \o Head(segs) \o JoinSegments(Tail(segs))

Folded(path) == IF isLinux THEN path ELSE lower(path)

\* root covers path: the same path, or root followed by "/" starts path.
PathCovers(root, path) == path = root \/ IsPrefix(root \o <<"/">>, path)

\* Some stored file root with no authority covers the path.
CoveredByStore(path) ==
    \E r \in validRoots :
        r.scheme = "file" /\ r.authority = "" /\ PathCovers(JoinSegments(r.segs), Folded(path))

EndsWith(s, suffix) ==
    Len(suffix) <= Len(s) /\ SubSeq(s, Len(s) - Len(suffix) + 1, Len(s)) = suffix

FiveExtensions ==
    { <<".", "p", "n", "g">>, <<".", "j", "p", "g">>, <<".", "j", "p", "e", "g">>,
      <<".", "g", "i", "f">>, <<".", "b", "m", "p">> }

HasAllowedExtension(path) == \E e \in FiveExtensions : EndsWith(lower(path), e)

\* A request URL is malformed when it holds an undecodable escape.
Malformed(url) == \E i \in 1..Len(url) : url[i] = BadEscape

IsFileScheme(url) == url[1] = "file:"

\* The filesystem path a well-formed request URL names.
UrlPath(url) == IF IsFileScheme(url) THEN SubSeq(url, 3, Len(url)) ELSE SubSeq(url, 4, Len(url))

Covered(url) == ~Malformed(url) /\ CoveredByStore(UrlPath(url))
Allowed(url) == ~Malformed(url) /\ HasAllowedExtension(UrlPath(url))

Handled(i) == requests[i].state # "Received"

\* The step in which the handler of request i runs.
HandlerRuns(i) == requests[i].state = "Received" /\ requests'[i].state # "Received"

Alive(w) == windows[w].ready > 0 /\ ~windows[w].closed /\ ~windows[w].destroyed
Terminated(w) == windows[w].closed \/ windows[w].destroyed

KeyAB == Key(URI_file(PathAB), isLinux)

\* ---------------------------------------------------------------- C1
\* C1: deny by default. Whenever a handler runs, on either scheme, the request is
\* served only if a root in the store at that moment covers its resolved path or
\* its extension is allow-listed; every other request is denied, and every error
\* any callback ever carried is ABORTED (-3).
DenyByDefault ==
    [][\A i \in 1..Len(requests) :
          HandlerRuns(i) =>
             LET url == requests[i].url
                 cbs == Callbacks(requests'[i].events)
             IN /\ requests'[i].state \in {"Served", "Denied"}
                /\ requests'[i].state = "Served" => (Covered(url) \/ Allowed(url))
                /\ ~(Covered(url) \/ Allowed(url)) => requests'[i].state = "Denied"
                /\ \A j \in 1..Len(cbs) :
                      cbs[j].result = "error" => cbs[j].error = -3]_vars

\* Before any window was ready, a vscode-file: request for a script under no
\* root was denied with -3.
DenyByDefault_Witness ==
    \E i \in 1..Len(requests) :
        /\ requests[i].url = ResourceUrl(ScriptInAB)
        /\ requests[i].state = "Denied"
        /\ Callbacks(requests[i].events) = <<CallbackError(-3)>>
        /\ KeyAB \notin validRoots
        /\ \A w \in Windows : windows[w].ready = 0

\* ---------------------------------------------------------------- C4
\* C4: with isPreferringBrowserCodeLoad set, every file: request is denied with
\* ABORTED, whatever the store holds and whatever the extension of the path is.
ModeSwitchDeniesAll ==
    \A i \in 1..Len(requests) :
        (isPreferringBrowserCodeLoad /\ IsFileScheme(requests[i].url) /\ Handled(i))
            => /\ requests[i].state = "Denied"
               /\ Callbacks(requests[i].events) = <<CallbackError(-3)>>

\* With the flag set, a file: request for an image (allow-listed extension) was
\* denied, and so would be one for a path inside a root the store holds now.
ModeSwitchDeniesAll_Witness ==
    /\ isPreferringBrowserCodeLoad
    /\ KeyAB \in validRoots
    /\ StateAfter(handleFileRequest(FileUrl(ScriptInAB), validRoots, validExtensions,
                                    isLinux, isPreferringBrowserCodeLoad)) = "Denied"
    /\ \E i \in 1..Len(requests) :
          requests[i].url = FileUrl(ImageLower) /\ requests[i].state = "Denied"

\* ---------------------------------------------------------------- C5
\* C5: every request resolves exactly once. A request whose handler has not run
\* has seen no callback; once the handler has run, on any branch and for any
\* URL, the callback was invoked exactly once and the request is Served or
\* Denied; and a request that is Served or Denied never changes again (the
\* record only ever gives way to the next request received).
ResolvedOnce(i) ==
    IF requests[i].state = "Received"
    THEN requests[i].events = <<>>
    ELSE /\ Len(Callbacks(requests[i].events)) = 1
         /\ requests[i].state \in {"Served", "Denied"}

ResolvesExactlyOnce ==
    /\ [](\A i \in 1..Len(requests) : ResolvedOnce(i))
    /\ [][\A i \in 1..Len(requests) :
             requests[i].state \in {"Served", "Denied"}
                 => \/ requests'[i] = requests[i]
                    \/ requests'[i].state = "Received" /\ requests'[i].events = <<>>]_vars

\* A served request of one window's granted root, still as it was resolved after
\* that window closed and the root was removed.
ResolvesExactlyOnce_Witness ==
    \E i \in 1..Len(requests) :
        /\ requests[i].url = FileUrl(ScriptInAB)
        /\ requests[i].state = "Served"
        /\ Callbacks(requests[i].events) = <<CallbackPath(ScriptInAB)>>
        /\ KeyAB \notin validRoots
        /\ \E w \in Windows : windows[w].closed

\* ---------------------------------------------------------------- C6
\* C6: fail closed on malformed input. A request whose URL is malformed is,
\* once its handler has run, denied through the callback with ABORTED: exactly
\* one callback, carrying error -3, on either scheme.
MalformedFailsClosed ==
    \A i \in 1..Len(requests) :
        (Malformed(requests[i].url) /\ Handled(i))
            => /\ requests[i].state = "Denied"
               /\ Callbacks(requests[i].events) = <<CallbackError(-3)>>

\* A malformed file: URL ending in .png was denied although file: access is enabled.
MalformedFailsClosed_Witness ==
    /\ ~isPreferringBrowserCodeLoad
    /\ \E i \in 1..Len(requests) :
          /\ requests[i].url = FileUrl(Undecodable)
          /\ requests[i].state = "Denied"

\* ---------------------------------------------------------------- C7
\* C7: covering match is on path-segment boundaries. In every reachable store
\* and for every probe path, findSubstr is true exactly when a stored root is
\* the path or is followed by "/" in it; and a handler that runs on a request
\* with no allow-listed extension (file: access enabled) serves it exactly when
\* such a root exists, so /a/bc is not served under root /a/b and /a/b/x.js is.
ProbePaths ==
    { PathAB, PathA, PathABUpper, ScriptInAB, SiblingOfAB, appRoot,
      <<"/", "p", "q">>, <<"/", "p", "/", "x">>, <<"/", "a", "/", "b", "/">>, <<>> }

SegmentBoundaryMatch ==
    /\ [](\A p \in ProbePaths :
             tst_findSubstr(validRoots, isLinux, URI_file(p)) <=> CoveredByStore(p))
    /\ [][\A i \in 1..Len(requests) :
             (/\ HandlerRuns(i)
              /\ ~Allowed(requests[i].url)
              /\ ~(isPreferringBrowserCodeLoad /\ IsFileScheme(requests[i].url)))
                 => (requests'[i].state = "Served" <=> Covered(requests[i].url))]_vars

\* With root /a/b granted and never removed, a request for /a/bc was denied
\* while /a/b/x.js is covered.
SegmentBoundaryMatch_Witness ==
    /\ ~isPreferringBrowserCodeLoad
    /\ KeyAB \in validRoots
    /\ \A w \in Windows : ~Terminated(w)
    /\ tst_findSubstr(validRoots, isLinux, URI_file(ScriptInAB))
    /\ ~tst_findSubstr(validRoots, isLinux, URI_file(SiblingOfAB))
    /\ \E i \in 1..Len(requests) :
          requests[i].url = FileUrl(SiblingOfAB) /\ requests[i].state = "Denied"

\* ---------------------------------------------------------------- C8
\* C8: extension fallback. The allow-list holds .png .jpg .jpeg .gif .bmp in
\* every reachable state; and with file: access enabled, a handler that runs on
\* a request covered by no root serves the request path when its extension is
\* one of the five, and denies it otherwise.
ExtensionFallback ==
    /\ [](validExtensions = FiveExtensions)
    /\ [][\A i \in 1..Len(requests) :
             (/\ HandlerRuns(i)
              /\ ~Covered(requests[i].url)
              /\ ~(isPreferringBrowserCodeLoad /\ IsFileScheme(requests[i].url)))
                 => IF Allowed(requests[i].url)
                    THEN /\ requests'[i].state = "Served"
                         /\ Callbacks(requests'[i].events)
                               = <<CallbackPath(UrlPath(requests[i].url))>>
                    ELSE requests'[i].state = "Denied"]_vars

\* Before any window was ready, a file: request for /u/i.png was served.
ExtensionFallback_Witness ==
    /\ \A w \in Windows : windows[w].ready = 0
    /\ \E i \in 1..Len(requests) :
          /\ requests[i].url = FileUrl(ImageLower)
          /\ requests[i].state = "Served"
          /\ ~CoveredByStore(ImageLower)

\* ---------------------------------------------------------------- C9
\* C9: the extension check ignores letter case. A handler that runs on a request
\* for /u/i.PNG, covered by no root, decides what the same handler decides in
\* that state for /u/i.png, and the other way round, on both schemes.
FileDecision(path) ==
    StateAfter(handleFileRequest(FileUrl(path), validRoots, validExtensions,
                                 isLinux, isPreferringBrowserCodeLoad))

ResourceDecision(path) ==
    StateAfter(handleResourceRequest(ResourceUrl(path), validRoots, validExtensions, isLinux))

ExtensionCaseInsensitive ==
    [][\A i \in 1..Len(requests) :
          (HandlerRuns(i) /\ ~CoveredByStore(ImageLower) /\ ~CoveredByStore(ImageUpper))
             => /\ requests[i].url = FileUrl(ImageUpper)
                     => requests'[i].state = FileDecision(ImageLower)
                /\ requests[i].url = FileUrl(ImageLower)
                     => requests'[i].state = FileDecision(ImageUpper)
                /\ requests[i].url = ResourceUrl(ImageUpper)
                     => requests'[i].state = ResourceDecision(ImageLower)
                /\ requests[i].url = ResourceUrl(ImageLower)
                     => requests'[i].state = ResourceDecision(ImageUpper)]_vars

\* A vscode-file: request for /u/i.PNG was served on the extension alone.
ExtensionCaseInsensitive_Witness ==
    \E i \in 1..Len(requests) :
        /\ requests[i].url = ResourceUrl(ImageUpper)
        /\ requests[i].state = "Served"
        /\ ~CoveredByStore(ImageUpper)
        /\ \A w \in Windows : windows[w].ready = 0

\* ---------------------------------------------------------------- C2
\* C2: grants of different consumers are independent and never revoked early.
\* Every path a window reported on a ready signal is covered by the store for as
\* long as that window has signalled neither close nor destroy, whatever the
\* other windows were granted and whenever they close.
GrantsNeverRevokedEarly ==
    \A d \in Windows :
        Alive(d) =>
            \A p \in windows[d].reported :
                tst_findSubstr(validRoots, isLinux, URI_file(p))

\* ---------------------------------------------------------------- C3
\* The store holds no root of a consumer that is gone: every root that is not an
\* initial root is held, as a handle not yet disposed, by a window that has
\* signalled neither close nor destroy.
InsertedByAliveWindow(k) ==
    \E w \in Windows :
        /\ Alive(w)
        /\ \E n \in 1..Len(disposables[w]) :
              /\ ~disposables[w][n].isDisposed
              /\ \E m \in 1..Len(disposables[w][n].toDispose) :
                    LET h == disposables[w][n].toDispose[m]
                    IN h.fn = "delete" /\ ~h.done /\ Key(h.root, isLinux) = k

NoRootOutlivesItsWindow ==
    \A k \in validRoots \ InitialRoots(isLinux) : InsertedByAliveWindow(k)

\* After a window is gone, a path it reported is covered only by an initial root
\* or by a root reported by a window that is still alive.
GoneWindowPathsUncovered ==
    \A c \in Windows :
        Terminated(c) =>
            \A p \in windows[c].reported :
                tst_findSubstr(validRoots, isLinux, URI_file(p)) =>
                    \/ tst_findSubstr(InitialRoots(isLinux), isLinux, URI_file(p))
                    \/ \E d \in Windows :
                          /\ Alive(d)
                          /\ \E q \in windows[d].reported :
                                tst_findSubstr({Key(URI_file(q), isLinux)}, isLinux, URI_file(p))

\* C3: a grant never outlives its consumer. After a window signalled close or
\* destroy, a path it was granted is no longer covered unless an initial root or
\* a root of a window still alive covers it; a root granted to a window still
\* alive remains covered; and every non-initial root of the store was inserted
\* by a grant of a window that has not closed or been destroyed.
GrantScopedToConsumer ==
    /\ GoneWindowPathsUncovered
    /\ GrantsNeverRevokedEarly
    /\ NoRootOutlivesItsWindow

\* ---------------------------------------------------------------- C10
\* C10: revocation is idempotent. A second or later dispose() of a handle that
\* addValidRoot returned leaves the store as it is, also when another grant has
\* put the same path back since the first call.
RevokeIdempotent ==
    [][\A i \in 1..Len(handles) :
          (handles'[i].calls = handles[i].calls + 1 /\ handles[i].calls >= 1)
              => validRoots' = validRoots]_vars

\* A handle was disposed again after a later grant had put its path back; the
\* later grant's root is still in the store.
RevokeIdempotent_Witness ==
    \E i \in 1..Len(handles) : \E j \in 1..Len(handles) :
        /\ i < j
        /\ handles[i].h.fn = "delete"
        /\ handles[j].h.fn = "delete"
        /\ Key(handles[i].h.root, isLinux) = Key(handles[j].h.root, isLinux)
        /\ handles[i].calls >= 2
        /\ handles[i].heldAtLastCall >= j
        /\ handles[j].calls = 0
        /\ Key(handles[j].h.root, isLinux) \in validRoots

\* ---------------------------------------------------------------- C11
InitialRootPaths == {appRoot, extensionsPath, globalStorageHomePath, workspaceStorageHomePath}

\* The store holds a file root spelled as the path (up to the platform's case rule).
StoresPath(path) ==
    \E k \in validRoots :
        k.scheme = "file" /\ k.authority = "" /\ JoinSegments(k.segs) = Folded(path)

\* The paths of a configuration in the order the ready listener grants them.
ConfigPathSeq(config) ==
    (IF config.hasConfig /\ config.hasDev THEN config.dev ELSE <<>>)
    \o (IF config.hasConfig /\ config.hasTests THEN <<config.tests>> ELSE <<>>)

\* The DisposableStore the latest ready signal of window w created.
LastStore(ds, w) == ds[w][Len(ds[w])]

\* C11: the four initial roots are permanent. Each of them is in the store in
\* every reachable state, so no sequence of grants, closes and destroys removes
\* one; and a ready signal that grants a path the store already holds gets the
\* no-op handle for it and adds no entry for it: the store grows by exactly the
\* number of deleting handles the signal received.
InitialRootsPermanent ==
    /\ [](\A p \in InitialRootPaths : StoresPath(p))
    /\ [][\A w \in Windows : \A config \in Configs :
             (OnDidSignalReadyWindow(w, config) /\ ConfigPathSeq(config) # <<>>)
                 => LET qs == ConfigPathSeq(config)
                        hs == LastStore(disposables', w).toDispose
                    IN /\ Len(hs) = Len(qs) + 1
                       /\ \A j \in 1..Len(qs) :
                             StoresPath(qs[j]) => hs[j + 1] = Disposable_None
                       /\ Cardinality(validRoots') =
                             Cardinality(validRoots)
                               + Cardinality({j \in 1..Len(qs) : hs[j + 1] # Disposable_None})]_vars

\* A window asked for the application root, got the no-op handle for it, and
\* has closed; the application root is still stored.
InitialRootsPermanent_Witness ==
    \E w \in Windows :
        /\ windows[w].closed
        /\ appRoot \in windows[w].reported
        /\ StoresPath(appRoot)
        /\ Len(disposables[w]) > 0

\* ---------------------------------------------------------------- C12
\* The name of the scheme a request URL was sent on.
SchemeName(url) == IF IsFileScheme(url) THEN "file" ELSE "vscode-file"

\* The filesystem path the handler resolves a request URL to; a malformed URL
\* resolves to the empty path.
ResolvedPath(url) == IF Malformed(url) THEN <<>> ELSE UrlPath(url)

\* C12: denial logging. A request that was denied, on either scheme and with
\* isPreferringBrowserCodeLoad set or not, emitted exactly one error log entry,
\* emitted before the callback was invoked, that names the scheme, the resolved
\* filesystem path and the original request URL; a request that was served
\* emitted no log entry.
DenialLogged ==
    \A i \in 1..Len(requests) :
        LET ev == requests[i].events
            url == requests[i].url
        IN /\ requests[i].state = "Denied" =>
                /\ Len(Logs(ev)) = 1
                /\ Len(ev) = 2
                /\ ev[1].kind = "log"
                /\ ev[2].kind = "callback"
                /\ ev[1].protocol = SchemeName(url)
                /\ ev[1].path = ResolvedPath(url)
                /\ ev[1].url = url
           /\ requests[i].state = "Served" => Logs(ev) = <<>>

\* With isPreferringBrowserCodeLoad set, a file: request inside a stored root
\* was denied and logged before its callback ran.
DenialLogged_Witness ==
    \E i \in 1..Len(requests) :
        /\ isPreferringBrowserCodeLoad
        /\ requests[i].url = FileUrl(ScriptInAB)
        /\ KeyAB \in validRoots
        /\ requests[i].state = "Denied"
        /\ requests[i].events[1] = LogError("", ScriptInAB, "file", FileUrl(ScriptInAB))

\* ---------------------------------------------------------------- C13
\* The deleting handles not yet disposed, by the store that holds them.
HeldHandles ==
    UNION { UNION { { <<w, n, m>> :
                        m \in { k \in 1..Len(disposables[w][n].toDispose) :
                                   disposables[w][n].toDispose[k].fn = "delete" } } :
                    n \in 1..Len(disposables[w]) } :
            w \in Windows }

HandleAt(x) == disposables[x[1]][x[2]].toDispose[x[3]]

\* The paths, as the grants spelled them, whose deleting handle is not yet disposed.
HeldRoots == { HandleAt(x).root.path : x \in HeldHandles }

PathAUpperC == <<"/", "A", "/", "c">>

CaseProbes ==
    { PathAB, PathABUpper, ScriptInAB, PathAUpperC,
      <<"/", "A", "/", "b", "/", "x">>, <<"/", "P", "/", "x">>, <<"/", "p", "/", "x">> }

\* C13: case is normalized the same way at insert, at the already-authorized
\* check of a grant, and at lookup. On a platform other than Linux a path is
\* covered exactly when it is covered, letter case ignored, by an initial root
\* or by a root whose grant is still held, and no two held grants differ only
\* in letter case (the second one was a no-op); on Linux a path is covered
\* exactly when such a root covers it with the same letter case.
CaseNormalizedConsistently ==
    /\ \A p \in CaseProbes :
          tst_findSubstr(validRoots, isLinux, URI_file(p))
              <=> \E r \in HeldRoots \cup InitialRootPaths :
                     IF isLinux THEN PathCovers(r, p) ELSE PathCovers(lower(r), lower(p))
    /\ ~isLinux =>
          \A x \in HeldHandles : \A y \in HeldHandles :
              lower(HandleAt(x).root.path) = lower(HandleAt(y).root.path) => x = y

\* Off Linux, one window holds /a/b and another, alive, asked for /a and /A/b:
\* it holds /a, its grant of /A/b was a no-op, and /A/c is covered by /a.
CaseNormalizedConsistently_Witness ==
    /\ ~isLinux
    /\ PathAB \in HeldRoots
    /\ PathA \in HeldRoots
    /\ PathABUpper \notin HeldRoots
    /\ \E w \in Windows : Alive(w) /\ PathABUpper \in windows[w].reported
    /\ tst_findSubstr(validRoots, isLinux, URI_file(PathAUpperC))

\* ---------------------------------------------------------------- C14
AllUrls == FileUrls \cup ResourceUrls

\* What the handler of the URL's scheme decides for the URL, given a store, an
\* allow-list and the mode flag.
DecisionOf(url, roots, extensions, preferBrowser) ==
    IF IsFileScheme(url)
    THEN StateAfter(handleFileRequest(url, roots, extensions, isLinux, preferBrowser))
    ELSE StateAfter(handleResourceRequest(url, roots, extensions, isLinux))

\* The granted path covers the path, by the platform's case rule.
GrantCovers(granted, path) ==
    IF isLinux THEN PathCovers(granted, path) ELSE PathCovers(lower(granted), lower(path))

\* C14: a denial turns into a success only through a new grant. A handler
\* resolves a request to what DecisionOf gives in the state it runs in; the
\* allow-list and the mode flag never change; and a step after which a URL that
\* would have been denied would be served is a ready signal that grants a path
\* the store did not hold and that covers the URL's path. No request handling,
\* close or destroy is such a step. (With the allow-list and the flag fixed, a
\* step that leaves the store as it is changes no decision, so the decisions
\* are compared over the steps that change the store.)
DenyToServeOnlyByGrant ==
    [][/\ validExtensions' = validExtensions
       /\ isPreferringBrowserCodeLoad' = isPreferringBrowserCodeLoad
       /\ \A i \in 1..Len(requests) :
             HandlerRuns(i) =>
                requests'[i].state = DecisionOf(requests[i].url, validRoots, validExtensions,
                                                isPreferringBrowserCodeLoad)
       /\ \A url \in (IF validRoots' = validRoots THEN {} ELSE AllUrls) :
             ( /\ DecisionOf(url, validRoots, validExtensions,
                             isPreferringBrowserCodeLoad) = "Denied"
               /\ DecisionOf(url, validRoots', validExtensions',
                             isPreferringBrowserCodeLoad') = "Served" )
                 => \E w \in Windows : \E config \in Configs :
                       /\ OnDidSignalReadyWindow(w, config)
                       /\ \E q \in ConfigPaths(config) :
                             /\ ~StoresPath(q)
                             /\ ~Malformed(url)
                             /\ GrantCovers(q, UrlPath(url))]_vars

\* A file: request for a script was served under a granted root; with the
\* initial roots alone, as before the grant, the same request is denied.
DenyToServeOnlyByGrant_Witness ==
    \E i \in 1..Len(requests) :
        /\ requests[i].url = FileUrl(ScriptInAB)
        /\ requests[i].state = "Served"
        /\ PathAB \in HeldRoots
        /\ DecisionOf(FileUrl(ScriptInAB), InitialRoots(isLinux), validExtensions,
                      isPreferringBrowserCodeLoad) = "Denied"

\* ---------------------------------------------------------------- C15
\* The paths window w's grants inserted and whose handle it still holds.
HeldRootsOf(w) == { HandleAt(x).root.path : x \in {y \in HeldHandles : y[1] = w} }

\* C15: automatic revocation fires exactly once per ready signal, whichever of
\* close and destroy comes first. The first of the two removes from the store
\* exactly the roots the window's grants inserted; the other one, later, leaves
\* the store unchanged, also when another window was granted the same path in
\* between.
RevocationFiresOnce ==
    [][\A w \in Windows :
          (OnDidClose(w) \/ OnDidDestroy(w)) =>
              IF Terminated(w)
              THEN validRoots' = validRoots
              ELSE /\ validRoots' \subseteq validRoots
                   /\ \A k \in validRoots :
                         k \in validRoots' <=>
                             ~\E r \in HeldRootsOf(w) : JoinSegments(k.segs) = Folded(r)]_vars

\* A window that asked for /a/b has closed and been destroyed, another window
\* holds the grant of /a/b, and /a/b is stored.
RevocationFiresOnce_Witness ==
    \E w \in Windows : \E v \in Windows :
        /\ w # v
        /\ windows[w].closed /\ windows[w].destroyed
        /\ PathAB \in windows[w].reported
        /\ Alive(v)
        /\ PathAB \in HeldRootsOf(v)
        /\ StoresPath(PathAB)

\* ---------------------------------------------------------------- C16
\* The part of C16 that holds. When a handler runs for a well-formed URL, file:
\* access not being disabled: if a window that is alive holds the handle of a
\* root covering the path, the request is served; if no initial root and no
\* root whose handle is still held covers the path and its extension is not
\* allow-listed, the request is denied. A close or destroy leaves every
\* request, resolved or not, as it was.
HeldGrantsVisibleInProgramOrder ==
    [][/\ \A i \in 1..Len(requests) :
             (HandlerRuns(i) /\ ~Malformed(requests[i].url)
                /\ ~(IsFileScheme(requests[i].url) /\ isPreferringBrowserCodeLoad))
               => LET path == UrlPath(requests[i].url)
                  IN /\ (\E w \in Windows :
                            Alive(w) /\ \E r \in HeldRootsOf(w) : GrantCovers(r, path))
                          => requests'[i].state = "Served"
                     /\ ( /\ \A w \in Windows : Terminated(w) => HeldRootsOf(w) = {}
                          /\ ~\E r \in HeldRoots \cup InitialRootPaths : GrantCovers(r, path)
                          /\ ~HasAllowedExtension(path) )
                          => requests'[i].state = "Denied"
       /\ \A w \in Windows :
             (OnDidClose(w) \/ OnDidDestroy(w)) => requests' = requests]_vars

\* C16: grants and revocations are visible to the next request in program
\* order. A request handled after a window's ready signal asked for root r and
\* before that window closes or is destroyed is served for every path under r
\* (file: access not being disabled); the same request handled when no initial
\* root and no root asked for by a window still alive covers the path, and its
\* extension is not allow-listed, is denied; and a close or destroy leaves
\* every request, resolved or not, as it was.
VisibleInProgramOrder ==
    [][/\ \A i \in 1..Len(requests) :
             (HandlerRuns(i) /\ ~Malformed(requests[i].url)
                /\ ~(IsFileScheme(requests[i].url) /\ isPreferringBrowserCodeLoad))
               => LET path == UrlPath(requests[i].url)
                  IN /\ (\E w \in Windows :
                            Alive(w) /\ \E r \in windows[w].reported : GrantCovers(r, path))
                          => requests'[i].state = "Served"
                     /\ ( /\ ~\E w \in Windows :
                                Alive(w) /\ \E r \in windows[w].reported : GrantCovers(r, path)
                          /\ ~\E r \in InitialRootPaths : GrantCovers(r, path)
                          /\ ~HasAllowedExtension(path) )
                          => requests'[i].state = "Denied"
       /\ \A w \in Windows :
             (OnDidClose(w) \/ OnDidDestroy(w)) => requests' = requests]_vars

\* ---------------------------------------------------------------- C17
\* C17: a vscode-file: request is decided and served by its translated file
\* URI. When the handler runs for a well-formed vscode-file: URL, the request is
\* served exactly when a stored file root covers the path of the translated URI
\* or that path has an allow-listed extension, whatever the flag says; a served
\* request's callback carries that filesystem path, and a denied request's log
\* entry names it.
ResourceDecidedByFileUri ==
    [][\A i \in 1..Len(requests) :
          (HandlerRuns(i) /\ ~IsFileScheme(requests[i].url) /\ ~Malformed(requests[i].url))
            => LET url == requests[i].url
                   ev == requests'[i].events
               IN /\ requests'[i].state = "Served" <=> (Covered(url) \/ Allowed(url))
                  /\ requests'[i].state = "Served" => ev = <<CallbackPath(UrlPath(url))>>
                  /\ requests'[i].state = "Denied" => ev[1].path = UrlPath(url)]_vars

\* A vscode-file: request for a script under the granted root /a/b was served
\* with the file path /a/b/x.js.
ResourceDecidedByFileUri_Witness ==
    \E i \in 1..Len(requests) :
        /\ requests[i].url = ResourceUrl(ScriptInAB)
        /\ requests[i].events = <<CallbackPath(ScriptInAB)>>
        /\ PathAB \in HeldRoots

\* ---------------------------------------------------------------- C18
\* C18: the vscode-file: handler has no disable mode. Whenever it runs, with
\* isPreferringBrowserCodeLoad set or not, it decides and calls back as the
\* file: handler does, with the flag not set, for the file: URL of the
\* translated path and the same store.
ResourceIgnoresModeFlag ==
    [][\A i \in 1..Len(requests) :
          (HandlerRuns(i) /\ ~IsFileScheme(requests[i].url))
            => LET asFile == handleFileRequest(FileUrl(UrlPath(requests[i].url)), validRoots,
                                               validExtensions, isLinux, FALSE)
               IN /\ requests'[i].state = StateAfter(asFile)
                  /\ Callbacks(requests'[i].events) = Callbacks(asFile)]_vars

\* With the flag set, a vscode-file: request for a script under /a/b was served,
\* while the file: handler denies the same path.
ResourceIgnoresModeFlag_Witness ==
    \E i \in 1..Len(requests) :
        /\ isPreferringBrowserCodeLoad
        /\ requests[i].url = ResourceUrl(ScriptInAB)
        /\ requests[i].state = "Served"
        /\ StateAfter(handleFileRequest(FileUrl(ScriptInAB), validRoots, validExtensions,
                                        isLinux, isPreferringBrowserCodeLoad)) = "Denied"

\* ---------------------------------------------------------------- C19
\* The key is the one of the path (up to the platform's case rule).
KeyIsOf(k, path) ==
    k.scheme = "file" /\ k.authority = "" /\ JoinSegments(k.segs) = Folded(path)

\* C19: a grant and a revocation touch exactly one key each. In a ready step
\* the j-th granted path gets a deleting handle for itself exactly when no key
\* equal to its own was stored, neither before the step nor by an earlier grant
\* of the step, whether or not an ancestor or a descendant of it is stored, and
\* otherwise the no-op handle; the store gains the keys of the granted paths and
\* nothing else, and loses nothing. In a close or destroy step every key that
\* is not the key of a handle the window holds stays. Receiving and handling a
\* request leave the store as it is.
GrantAndRevokeTouchOneKey ==
    [][/\ \A w \in Windows : \A config \in Configs :
             (OnDidSignalReadyWindow(w, config) /\ ConfigPathSeq(config) # <<>>)
                 => LET qs == ConfigPathSeq(config)
                        hs == LastStore(disposables', w).toDispose
                    IN /\ \A j \in 1..Len(qs) :
                             IF StoresPath(qs[j])
                                \/ \E k \in 1..(j - 1) : Folded(qs[k]) = Folded(qs[j])
                             THEN hs[j + 1] = Disposable_None
                             ELSE hs[j + 1] = toDisposable("delete", URI_file(qs[j]))
                       /\ \A k \in validRoots \cup validRoots' :
                             k \in validRoots' <=>
                                (k \in validRoots \/ \E j \in 1..Len(qs) : KeyIsOf(k, qs[j]))
                       /\ \A j \in 1..Len(qs) : \E k \in validRoots' : KeyIsOf(k, qs[j])
       /\ \A w \in Windows :
             (OnDidClose(w) \/ OnDidDestroy(w)) =>
                 \A k \in validRoots :
                     (~\E r \in HeldRootsOf(w) : KeyIsOf(k, r)) => k \in validRoots'
       /\ requests' # requests => validRoots' = validRoots]_vars

\* One window holds the grant of /a and another the grant of its descendant
\* /a/b, each with its own entry in the store.
GrantAndRevokeTouchOneKey_Witness ==
    \E w \in Windows : \E v \in Windows :
        /\ w # v
        /\ PathA \in HeldRootsOf(w)
        /\ PathAB \in HeldRootsOf(v)
        /\ StoresPath(PathA)
        /\ StoresPath(PathAB)

====
